---------------------------- MODULE Spec2Model ----------------------------
(***************************************************************************)
(* A model of the response body pipeline (src/src/body/mod.rs) and of the  *)
(* agent configuration (src/src/config.rs) of ureq.                        *)
(*                                                                         *)
(* Strings are sequences of one-character strings, so that split, trim,    *)
(* strip_prefix and starts_with are computed as the code computes them.    *)
(* Option<T> is a sequence of length 0 (None) or 1 (Some).                 *)
(***************************************************************************)
EXTENDS Integers, Sequences, FiniteSets, TLC

VARIABLES
    \* ---- response headers, ResponseInfo and the decoders built from it
    headers,        \* the two response headers ResponseInfo::new reads
    info,           \* Option<ResponseInfo>
    decoder,        \* Option<the decoder variants BodyReader::new chose>
    features,       \* the cargo features of the build: gzip, brotli, charset
    \* ---- Body / UnitHandler / LimitReader
    body,           \* "alive" | "moved" (into_reader) | "dropped"
    reader,         \* "none" | "shared" (as_reader) | "owned" (into_reader)
    connection,     \* UnitHandler.connection: "Some" | "None"
    connState,      \* the Connection itself: "owned" | "pooled" | "closed"
    unit,           \* the Unit: [state, must_close]
    wire,           \* body bytes the transport has not delivered yet
    input,          \* the Connection's input buffer (filled prefix)
    limit,          \* the limit the current reader was created with
    left,           \* LimitReader.left
    contentPending, \* decoded bytes buffered inside the content decoder
    charsetPending, \* transcoded bytes buffered inside the charset decoder
    pulled,         \* bytes do_read has returned to the current reader
    delivered,      \* bytes the current reader has handed to its caller
    startData,      \* body bytes not yet produced when the reader was made
    bodyPulled,     \* body bytes do_read has returned to all readers so far
    reuseCalls,     \* number of calls of connection.reuse
    closeCalls,     \* number of calls of connection.close
    lastRead,       \* what the BodyReader::read that led to this state did
    \* ---- Config / ConfigBuilder
    env,            \* the proxy Proxy::try_from_env finds
    config,         \* Option<Config>: the Config inside the ConfigBuilder
    setterCalls,    \* number of setter calls on the builder
    lastSetter,     \* the most recent setter called
    lastArg,        \* the argument of that call
    built,          \* Option<Config>: the Config that build() returned
    headerValue,    \* Option<what the last AutoHeaderValue::as_str returned>
    cloned          \* Option<the clone of the built Config, with its cost>

infoVars == <<headers, info, decoder, features>>
bodyVars == <<body, reader, connection, connState, unit, wire, input, limit,
              left, contentPending, charsetPending, pulled, delivered,
              startData, bodyPulled, reuseCalls, closeCalls, lastRead>>
agentVars == <<built, headerValue, cloned>>
cfgVars == <<env, config, setterCalls, lastSetter, lastArg, agentVars>>
vars == <<infoVars, bodyVars, cfgVars>>

(***************************************************************************)
(* Bounds of the model.                                                    *)
(***************************************************************************)
MaxWire == 3
MaxBuf == 2
MaxLimit == 2
MaxSetterCalls == 2

(***************************************************************************)
(* Option and string helpers.                                              *)
(***************************************************************************)
None == <<>>
Some(x) == <<x>>
IsSome(o) == Len(o) = 1
Unwrap(o) == o[1]

Min(a, b) == IF a <= b THEN a ELSE b

\* str::starts_with
StartsWith(s, p) == Len(s) >= Len(p) /\ SubSeq(s, 1, Len(p)) = p

\* str::strip_prefix: Some(rest) or None
StripPrefix(s, p) ==
    IF StartsWith(s, p) THEN Some(SubSeq(s, Len(p) + 1, Len(s))) ELSE None

IsWhitespace(c) == c \in {" ", "\t"}

RECURSIVE TrimStart(_)
TrimStart(s) ==
    IF s # <<>> /\ IsWhitespace(Head(s)) THEN TrimStart(Tail(s)) ELSE s

RECURSIVE TrimEnd(_)
TrimEnd(s) ==
    IF s # <<>> /\ IsWhitespace(s[Len(s)])
    THEN TrimEnd(SubSeq(s, 1, Len(s) - 1))
    ELSE s

\* str::trim
Trim(s) == TrimEnd(TrimStart(s))

\* str::split(c): the pieces between the separators, at least one piece
RECURSIVE SplitOn(_, _, _)
SplitOn(s, c, cur) ==
    IF s = <<>> THEN <<cur>>
    ELSE IF Head(s) = c THEN <<cur>> \o SplitOn(Tail(s), c, <<>>)
    ELSE SplitOn(Tail(s), c, Append(cur, Head(s)))

Split(s, c) == SplitOn(s, c, <<>>)

\* u8::to_ascii_lowercase on the letters the labels of the model use
ToAsciiLowercase(c) ==
    CASE c = "U" -> "u"
      [] c = "T" -> "t"
      [] c = "F" -> "f"
      [] c = "L" -> "l"
      [] c = "G" -> "g"
      [] c = "C" -> "c"
      [] OTHER -> c

LowerStr(s) == [i \in 1..Len(s) |-> ToAsciiLowercase(s[i])]

\* A byte of a header value that is not visible ASCII
NonAscii == "0xFF"

\* HeaderValue::to_str().ok(): the string, when every byte is visible ASCII
ToStr(v) == IF \E i \in 1..Len(v) : v[i] = NonAscii THEN None ELSE Some(v)

(***************************************************************************)
(* ResponseInfo::new and the decoders BodyReader::new builds.              *)
(***************************************************************************)
gzipStr == <<"g", "z", "i", "p">>
brStr == <<"b", "r">>
textSlash == <<"t", "e", "x", "t", "/">>
charsetEq == <<"c", "h", "a", "r", "s", "e", "t", "=">>

\* encoding_rs::Encoding::for_label: trims, lowercases and looks the label up
UTF_8 == "UTF-8"
WINDOWS_1252 == "windows-1252"
for_label(label) ==
    LET l == LowerStr(Trim(label)) IN
    CASE l = <<"u", "t", "f", "8">> -> Some(UTF_8)
      [] l = <<"u", "t", "f", "-", "8">> -> Some(UTF_8)
      [] l = <<"l", "1">> -> Some(WINDOWS_1252)
      [] OTHER -> None

\* impl From<&str> for ContentEncoding
ContentEncodingFromIgnoreCase(s) ==
    CASE LowerStr(Trim(s)) = gzipStr -> "Gzip"
      [] LowerStr(Trim(s)) = brStr -> "Brotli"
      [] OTHER -> "Unknown"

ContentEncodingFrom(s) ==
    CASE s = gzipStr -> "Gzip"
      [] s = brStr -> "Brotli"
      [] OTHER -> "Unknown"

\* the for loop of split_content_type: the last charset= parameter wins
RECURSIVE CharsetOf(_, _)
CharsetOf(parts, charset) ==
    IF parts = <<>> THEN charset
    ELSE LET s == StripPrefix(Trim(Head(parts)), charsetEq) IN
         CharsetOf(Tail(parts), IF IsSome(s) THEN s ELSE charset)

\* split_content_type: (mime_type, charset)
split_content_type(content_type) ==
    LET split == Split(content_type, ";") IN
    <<Some(Head(split)), CharsetOf(Tail(split), None)>>

\* Option::and_then(|v| v.to_str().ok())
HeaderStr(h) == IF IsSome(h) THEN ToStr(Unwrap(h)) ELSE None

ResponseInfoNew(hs) ==
    LET ce == HeaderStr(hs.content_encoding)
        ct == HeaderStr(hs.content_type)
        mc == IF IsSome(ct) THEN split_content_type(Unwrap(ct))
              ELSE <<None, None>>
    IN  [content_encoding |->
            IF IsSome(ce) THEN ContentEncodingFrom(Unwrap(ce)) ELSE "None",
         mime_type |-> mc[1],
         charset |-> mc[2]]

\* content_decoder: the ContentDecoder variant, whether it decompresses, and
\* whether the info! line was logged
content_decoder(content_encoding, feats) ==
    CASE content_encoding = "None" ->
            [variant |-> "PassThrough", decompress |-> FALSE, logged |-> FALSE]
      [] content_encoding = "Gzip" ->
            [variant |-> "Gzip", decompress |-> "gzip" \in feats,
             logged |-> "gzip" \notin feats]
      [] content_encoding = "Brotli" ->
            [variant |-> "Brotli", decompress |-> "brotli" \in feats,
             logged |-> "brotli" \notin feats]
      [] content_encoding = "Unknown" ->
            [variant |-> "PassThrough", decompress |-> FALSE, logged |-> TRUE]

\* charset_decoder: the CharsetDecoder variant and whether it transcodes
charset_decoderAnyMime(mime_type, charset, feats) ==
    LET is_text == IsSome(mime_type)
        label == IF IsSome(charset) THEN for_label(Unwrap(charset)) ELSE None
        from == IF IsSome(label) THEN Unwrap(label) ELSE UTF_8
    IN  IF is_text
        THEN IF "charset" \in feats
             THEN IF from = UTF_8
                  THEN [variant |-> "PassThrough", transcode |-> FALSE]
                  ELSE [variant |-> "Decoder", transcode |-> TRUE]
             ELSE [variant |-> "Decoder", transcode |-> FALSE]
        ELSE [variant |-> "PassThrough", transcode |-> FALSE]

charset_decoder(mime_type, charset, feats) ==
    LET is_text == IF IsSome(mime_type)
                   THEN StartsWith(Unwrap(mime_type), textSlash) ELSE FALSE
        label == IF IsSome(charset) THEN for_label(Unwrap(charset)) ELSE None
        from == IF IsSome(label) THEN Unwrap(label) ELSE UTF_8
    IN  IF is_text
        THEN IF "charset" \in feats
             THEN IF from = UTF_8
                  THEN [variant |-> "PassThrough", transcode |-> FALSE]
                  ELSE [variant |-> "Decoder", transcode |-> TRUE]
             ELSE [variant |-> "Decoder", transcode |-> FALSE]
        ELSE [variant |-> "PassThrough", transcode |-> FALSE]

\* BodyReader::new: the content decoder around the LimitReader, the charset
\* decoder around the content decoder
BodyReaderNew(i, feats) ==
    [content |-> content_decoder(i.content_encoding, feats),
     charset |-> charset_decoder(i.mime_type, i.charset, feats)]

(***************************************************************************)
(* The Unit and the Connection, as the spec describes them (sections 4.3,  *)
(* 4.5 and 4.6): their code is not part of the files modelled here.        *)
(*                                                                         *)
(* The body on the wire is a sequence of framing bytes "f" (chunk-size     *)
(* lines, trailers) and data bytes "d".                                    *)
(***************************************************************************)
RECURSIVE SeqsUpTo(_)
SeqsUpTo(n) ==
    IF n = 0 THEN {<<>>}
    ELSE LET shorter == SeqsUpTo(n - 1) IN
         shorter \cup {Append(s, c) : s \in {t \in shorter : Len(t) = n - 1},
                                      c \in {"f", "d"}}

RECURSIVE CountData(_)
CountData(s) ==
    IF s = <<>> THEN 0
    ELSE (IF Head(s) = "d" THEN 1 ELSE 0) + CountData(Tail(s))

\* Content-Length bodies hold data only; a chunked body starts with a
\* chunk-size line and ends with the last-chunk framing.
Bodies ==
    {s \in SeqsUpTo(MaxWire) :
        \/ CountData(s) = Len(s)
        \/ (Len(s) > 0 /\ s[1] = "f" /\ s[Len(s)] = "f"
              /\ CountData(s) = Len(s) - IF Len(s) = 1 THEN 1 ELSE 2)}

\* No ResponseBody event is waiting in the Unit
NoEvent == -1

\* Unit::poll_event while the body is read: the ResponseBody of the input
\* just handled goes first; otherwise RecvBody asks for input and Cleanup
\* reports Reset
UnitPollEvent(u) ==
    IF u.pending # NoEvent
    THEN [type |-> "ResponseBody", must_close |-> FALSE, amount |-> u.pending]
    ELSE IF u.state = "Cleanup"
    THEN [type |-> "Reset", must_close |-> u.must_close, amount |-> 0]
    ELSE [type |-> "AwaitInput", must_close |-> FALSE, amount |-> 0]

\* The Unit after a poll_event: the event it held is handed out (or, when
\* the poll fails, given up)
UnitAfterPoll(u) == [u EXCEPT !.pending = NoEvent]

\* Unit::handle_input: the Flow consumes the first k bytes of the slice and
\* writes their data bytes to the output; the next event is
\* ResponseBody{amount}
UnitHandleInput(slice, k) ==
    [input_used |-> k, amount |-> CountData(SubSeq(slice, 1, k))]

\* The Flow enters Cleanup once it has consumed the whole body
UnitAfterInput(u, restWire, restInput) ==
    IF restWire = <<>> /\ restInput = <<>>
    THEN [u EXCEPT !.state = "Cleanup"]
    ELSE u

\* The Unit after handle_input: the next event is ResponseBody{amount}
UnitQueue(u, amount) == [u EXCEPT !.pending = amount]

\* Connection::await_input: fails (timeout, I/O error) or leaves at least one
\* byte in the input buffer
AwaitInputFails(nd) ==
    nd.fail = "await_input" \/ (input = <<>> /\ nd.arrive = 0)

\* Connection::close and Connection::reuse, and the drop of a Connection
ConnClose == "closed"
ConnReuse == "pooled"
ConnDrop == "closed"

(***************************************************************************)
(* The readers.  A read is computed as a record of everything it returns   *)
(* and changes; a layer is a function from the length of the buffer it is  *)
(* given to that record.                                                   *)
(***************************************************************************)
DecoderBuf == 2

BufSizes == 0..(IF MaxBuf >= DecoderBuf THEN MaxBuf ELSE DecoderBuf)
Fails == {"none", "poll_event", "await_input", "handle_input", "poll_event2"}
NdSet == [fail : Fails, arrive : 0..MaxWire, used : 1..MaxBuf]

\* The outcomes of the environment a read can tell apart: what a read never
\* looks at is fixed (no bytes arrive, the Flow's cut is 1)
Distinct(nd) ==
    /\ nd.arrive <= Len(wire)
    /\ nd.used <= (IF Len(input) + nd.arrive = 0 THEN 1
                   ELSE Len(input) + nd.arrive)
    /\ nd.fail \in {"poll_event", "await_input"} =>
            nd.arrive = 0 /\ nd.used = 1
    /\ nd.fail = "handle_input" => nd.used = 1
    /\ (connection = "None" \/ left = 0) =>
            nd.fail = "none" /\ nd.arrive = 0 /\ nd.used = 1
    /\ (connection = "Some" /\ unit.state = "Cleanup") =>
            nd.fail \in {"none", "poll_event"} /\ nd.arrive = 0 /\ nd.used = 1

\* A read that returns Ok(0) and changes nothing
Cur ==
    [kind |-> "ok", n |-> 0, raw |-> 0, buf |-> -1, limitRead |-> FALSE,
     connection |-> connection, connState |-> connState, unit |-> unit,
     wire |-> wire, input |-> input, left |-> left,
     contentPending |-> contentPending, charsetPending |-> charsetPending,
     reuseCalls |-> reuseCalls, closeCalls |-> closeCalls,
     event |-> "none", steps |-> <<>>,
     inputLen |-> -1, sliceLen |-> -1, used |-> -1,
     event1 |-> "none", consumed |-> -1]

\* The Reset arm of do_read: take the connection, close or reuse it
ResetArmReuseAlways(r, must_close) ==
    [r EXCEPT !.connection = "None",
              !.connState = ConnReuse,
              !.reuseCalls = @ + 1,
              !.event = "Reset",
              !.steps = @ \o <<"reuse">>]

ResetArmKeepsConnection(r, must_close) ==
    IF must_close
    THEN [r EXCEPT !.connState = ConnClose,
                   !.closeCalls = @ + 1,
                   !.event = "Reset",
                   !.steps = @ \o <<"close">>]
    ELSE [r EXCEPT !.connState = ConnReuse,
                   !.reuseCalls = @ + 1,
                   !.event = "Reset",
                   !.steps = @ \o <<"reuse">>]

ResetArm(r, must_close) ==
    IF must_close
    THEN [r EXCEPT !.connection = "None",
                   !.connState = ConnClose,
                   !.closeCalls = @ + 1,
                   !.event = "Reset",
                   !.steps = @ \o <<"close">>]
    ELSE [r EXCEPT !.connection = "None",
                   !.connState = ConnReuse,
                   !.reuseCalls = @ + 1,
                   !.event = "Reset",
                   !.steps = @ \o <<"reuse">>]

\* let max = input.len().min(buf.len())
SliceMaxWholeInput(inputLen, bufLen) == inputLen

SliceMax(inputLen, bufLen) == Min(inputLen, bufLen)

\* do_read after await_input has succeeded, with no handle_input: the
\* second poll_event follows the first at once
HandleArmNoHandleInput(r, bufLen, nd) ==
    LET event == UnitPollEvent(r.unit)
        r1 == [r EXCEPT !.unit = UnitAfterPoll(@),
                        !.steps = @ \o <<"poll_event">>]
    IN  IF event.type = "ResponseBody"
        THEN [r1 EXCEPT !.n = event.amount, !.raw = event.amount,
                        !.event = "ResponseBody"]
        ELSE [r1 EXCEPT !.kind = "unreachable", !.event = event.type]

\* do_read after await_input has succeeded: the slice, handle_input,
\* consume_input and the second poll_event
HandleArm(r, bufLen, nd) ==
    LET wire1 == SubSeq(wire, nd.arrive + 1, Len(wire))
        input1 == input \o SubSeq(wire, 1, nd.arrive)
        max == SliceMax(Len(input1), bufLen)
        slice == SubSeq(input1, 1, max)
        r1 == [r EXCEPT !.wire = wire1, !.input = input1,
                        !.inputLen = Len(input1), !.sliceLen = max,
                        !.steps = @ \o <<"handle_input">>]
    IN  IF nd.fail = "handle_input" THEN [r1 EXCEPT !.kind = "err"]
        ELSE
        LET h == UnitHandleInput(slice, Min(nd.used, max))
            input_used == h.input_used
            input2 == SubSeq(input1, input_used + 1, Len(input1))
            unit2 == UnitQueue(UnitAfterInput(r.unit, wire1, input2),
                               h.amount)
            event == UnitPollEvent(unit2)
            r2 == [r1 EXCEPT !.input = input2,
                             !.used = h.input_used,
                             !.consumed = input_used,
                             !.unit = UnitAfterPoll(unit2),
                             !.steps = @ \o <<"consume_input", "poll_event">>]
        IN  IF nd.fail = "poll_event2" THEN [r2 EXCEPT !.kind = "err"]
            ELSE IF event.type = "ResponseBody"
            THEN [r2 EXCEPT !.n = event.amount, !.raw = event.amount,
                            !.event = "ResponseBody"]
            ELSE [r2 EXCEPT !.kind = "unreachable", !.event = event.type]

\* UnitHandler::do_read
do_read(bufLen, nd) ==
    LET r0 == [Cur EXCEPT !.buf = bufLen] IN
    IF connection = "None" THEN r0
    ELSE
    LET r1 == [r0 EXCEPT !.steps = <<"poll_event">>,
                         !.unit = UnitAfterPoll(@)] IN
    IF nd.fail = "poll_event" THEN [r1 EXCEPT !.kind = "err"]
    ELSE
    LET event == UnitPollEvent(unit) IN
    IF event.type = "Reset"
    THEN ResetArm([r1 EXCEPT !.event1 = "Reset"], event.must_close)
    ELSE IF event.type # "AwaitInput"
    THEN [r1 EXCEPT !.kind = "unreachable", !.event1 = event.type,
                    !.event = event.type]
    ELSE
    LET r2 == [r1 EXCEPT !.event = "AwaitInput", !.event1 = "AwaitInput",
                         !.steps = @ \o <<"await_input">>] IN
    IF AwaitInputFails(nd) THEN [r2 EXCEPT !.kind = "err"]
    ELSE HandleArm(r2, bufLen, nd)

\* UnitHandlerRef::do_read
UnitHandlerRefRead(nd) == [m \in BufSizes |-> do_read(m, nd)]

\* The buffer LimitReader::read hands to do_read: buf[..max].  (left is
\* also capped by usize::MAX, which no length of the model reaches.)
LimitReaderMaxNoCap(b) == b

LimitReaderMax(b) == Min(left, b)

\* self.left -= n as u64, after the ? on the result of do_read
LimitReaderCharge(r) ==
    IF r.kind = "ok"
    THEN [r EXCEPT !.left = left - r.n, !.limitRead = TRUE]
    ELSE [r EXCEPT !.limitRead = TRUE]

\* A LimitReader that asks the UnitHandler before it looks at its budget
LimitReaderReadPollsFirst(inner) ==
    [b \in BufSizes |->
        IF left = 0
        THEN [inner[0] EXCEPT
                !.kind = IF @ = "ok" THEN "BodyExceedsLimit" ELSE @,
                !.limitRead = TRUE]
        ELSE LimitReaderCharge(inner[LimitReaderMax(b)])]

\* impl Read for LimitReader
LimitReaderRead(inner) ==
    [b \in BufSizes |->
        IF left = 0
        THEN [Cur EXCEPT !.kind = "BodyExceedsLimit", !.limitRead = TRUE]
        ELSE LimitReaderCharge(inner[LimitReaderMax(b)])]

\* flate2's MultiGzDecoder and brotli's Decompressor: read the inner reader
\* into a buffer of their own and hand out the inflated bytes
Inflate(n) == n + n

\* The decoder hands out at most b of the bytes it holds and keeps the rest
ContentDecoderOut(r, avail, b) ==
    IF r.kind # "ok" THEN r
    ELSE [r EXCEPT !.n = Min(avail, b),
                   !.contentPending = avail - Min(avail, b)]

\* impl Read for ContentDecoder
ContentDecoderFill(r, b) == ContentDecoderOut(r, Inflate(r.n), b)

ContentDecoderRead(inner, dec) ==
    [b \in BufSizes |->
        IF ~dec.decompress THEN inner[b]
        ELSE IF contentPending > 0
        THEN ContentDecoderOut(Cur, contentPending, b)
        ELSE ContentDecoderFill(inner[DecoderBuf], b)]

\* CharCodec: transcodes what it read from the inner reader
Transcode(n) == n + n

\* The codec hands out at most b of the bytes it holds and keeps the rest
CharsetDecoderOut(r, avail, b) ==
    IF r.kind # "ok" THEN r
    ELSE [r EXCEPT !.n = Min(avail, b),
                   !.charsetPending = avail - Min(avail, b)]

\* impl Read for CharsetDecoder
CharsetDecoderFill(r, b) == CharsetDecoderOut(r, Transcode(r.n), b)

CharsetDecoderRead(inner, dec) ==
    [b \in BufSizes |->
        IF ~dec.transcode THEN inner[b]
        ELSE IF charsetPending > 0
        THEN CharsetDecoderOut(Cur, charsetPending, b)
        ELSE CharsetDecoderFill(inner[DecoderBuf], b)]

\* The limit applied to the decoded bytes instead of the Unit's
BodyReaderReadLimitOutside(b, nd) ==
    LET d == Unwrap(decoder) IN
    CharsetDecoderRead(
        LimitReaderRead(
            ContentDecoderRead(UnitHandlerRefRead(nd), d.content)),
        d.charset)[b]

\* impl Read for BodyReader, with the layers of BodyReader::new:
\* CharsetDecoder<ContentDecoder<LimitReader>>
BodyReaderRead(b, nd) ==
    LET d == Unwrap(decoder) IN
    CharsetDecoderRead(
        ContentDecoderRead(
            LimitReaderRead(UnitHandlerRefRead(nd)), d.content),
        d.charset)[b]

(***************************************************************************)
(* The state after Body::new, and the operations of a Body and its reader. *)
(***************************************************************************)
Str_text_l1 ==
    <<"t", "e", "x", "t", "/", "p", ";", "c", "h", "a", "r", "s", "e", "t",
      "=", "l", "1">>

AllFeatures == {"gzip", "brotli", "charset"}
FeatureSets == {{}, AllFeatures}

\* The responses and builds of the body model: every content encoding, a
\* charset to transcode, and a build without the decoders
BodyResponses ==
    {<<[content_encoding |-> ce, content_type |-> None], AllFeatures>> :
        ce \in {None, Some(gzipStr), Some(brStr), Some(<<"x">>)}}
    \cup
    {<<[content_encoding |-> Some(gzipStr),
        content_type |-> Some(Str_text_l1)], fs>> : fs \in FeatureSets}

NoRead ==
    [kind |-> "none", n |-> 0, raw |-> 0, buf |-> -1, callerBuf |-> -1,
     limitRead |-> FALSE,
     event |-> "none", steps |-> <<>>, inputLen |-> -1, sliceLen |-> -1,
     used |-> -1, leftBefore |-> -1, connectionBefore |-> "Some",
     event1 |-> "none", consumed |-> -1]

StartOfBuilder ==
    /\ env = None
    /\ config = None
    /\ setterCalls = 0
    /\ lastSetter = "none"
    /\ lastArg = "none"
    /\ built = None
    /\ headerValue = None
    /\ cloned = None

\* Body::new: the Executor hands over the Unit, the Connection and the
\* ResponseInfo of the response headers
Init ==
    /\ \E resp \in BodyResponses :
         /\ headers = resp[1]
         /\ features = resp[2]
    /\ info = Some(ResponseInfoNew(headers))
    /\ decoder = None
    /\ body = "alive"
    /\ reader = "none"
    /\ connection = "Some"
    /\ connState = "owned"
    /\ wire \in Bodies
    /\ \E mc \in BOOLEAN :
         unit = [state |-> IF wire = <<>> THEN "Cleanup" ELSE "RecvBody",
                 must_close |-> mc, pending |-> NoEvent]
    /\ input = <<>>
    /\ limit = 0
    /\ left = 0
    /\ contentPending = 0
    /\ charsetPending = 0
    /\ pulled = 0
    /\ delivered = 0
    /\ startData = 0
    /\ bodyPulled = 0
    /\ reuseCalls = 0
    /\ closeCalls = 0
    /\ lastRead = NoRead
    /\ StartOfBuilder

\* A budget charged with what earlier readers of the Body returned
LimitReaderNewPerBody(lim) == IF lim >= bodyPulled THEN lim - bodyPulled ELSE 0

\* LimitReader::shared and LimitReader::owned: left: limit
LimitReaderNew(lim) == lim

\* BodyReader::new around a fresh LimitReader
NewReader(lim) ==
    /\ decoder' = Some(BodyReaderNew(Unwrap(info), features))
    /\ limit' = lim
    /\ left' = LimitReaderNew(lim)
    /\ contentPending' = 0
    /\ charsetPending' = 0
    /\ pulled' = 0
    /\ delivered' = 0
    /\ startData' = CountData(input \o wire)
    /\ lastRead' = NoRead
    /\ UNCHANGED <<headers, info, features, connection, connState, unit,
                   wire, input, bodyPulled, reuseCalls, closeCalls, cfgVars>>

\* Body::as_reader: LimitReader::shared
AsReader(lim) ==
    /\ body = "alive"
    /\ reader \in {"none", "shared"}
    /\ reader' = "shared"
    /\ body' = body
    /\ NewReader(lim)

\* Body::into_reader: LimitReader::owned
IntoReader(lim) ==
    /\ body = "alive"
    /\ reader = "none"
    /\ reader' = "owned"
    /\ body' = "moved"
    /\ NewReader(lim)

\* impl Read for BodyReader
Read(b, nd) ==
    /\ reader # "none"
    /\ Distinct(nd)
    /\ \E r \in {BodyReaderRead(b, nd)} :
        /\ connection' = r.connection
        /\ connState' = r.connState
        /\ unit' = r.unit
        /\ wire' = r.wire
        /\ input' = r.input
        /\ left' = r.left
        /\ contentPending' = r.contentPending
        /\ charsetPending' = r.charsetPending
        /\ reuseCalls' = r.reuseCalls
        /\ closeCalls' = r.closeCalls
        /\ pulled' = pulled + r.raw
        /\ bodyPulled' = bodyPulled + r.raw
        /\ delivered' = delivered + (IF r.kind = "ok" THEN r.n ELSE 0)
        /\ lastRead' =
              [kind |-> r.kind, n |-> IF r.kind = "ok" THEN r.n ELSE 0,
               raw |-> r.raw, buf |-> r.buf, callerBuf |-> b,
               limitRead |-> r.limitRead,
               event |-> r.event, steps |-> r.steps,
               inputLen |-> r.inputLen, sliceLen |-> r.sliceLen,
               used |-> r.used, leftBefore |-> left,
               connectionBefore |-> connection,
               event1 |-> r.event1, consumed |-> r.consumed]
    /\ UNCHANGED <<infoVars, body, reader, limit, startData, cfgVars>>

\* The drop of the UnitHandler: its Connection, when it still holds one, is
\* dropped with it
DropUnitHandler ==
    /\ connection' = "None"
    /\ connState' = IF connection = "Some" THEN ConnDrop ELSE connState

\* The reader goes out of scope; an into_reader reader owns the UnitHandler
DropReader ==
    /\ reader # "none"
    /\ reader' = "none"
    /\ lastRead' = NoRead
    /\ IF reader = "owned"
       THEN DropUnitHandler
       ELSE UNCHANGED <<connection, connState>>
    /\ UNCHANGED <<infoVars, body, unit, wire, input, limit, left,
                   contentPending, charsetPending, pulled, delivered,
                   startData, bodyPulled, reuseCalls, closeCalls, cfgVars>>

\* The Body goes out of scope
DropBody ==
    /\ body = "alive"
    /\ reader = "none"
    /\ body' = "dropped"
    /\ lastRead' = NoRead
    /\ DropUnitHandler
    /\ UNCHANGED <<infoVars, reader, unit, wire, input, limit, left,
                   contentPending, charsetPending, pulled, delivered,
                   startData, bodyPulled, reuseCalls, closeCalls, cfgVars>>

Next ==
    \/ \E lim \in 0..MaxLimit : AsReader(lim)
    \/ \E lim \in 0..MaxLimit : IntoReader(lim)
    \/ \E nd \in {x \in NdSet : Distinct(x)} :
          \E b \in 0..MaxBuf : Read(b, nd)
    \/ DropReader
    \/ DropBody

Spec == Init /\ [][Next]_vars

(***************************************************************************)
(* ResponseInfo::new and BodyReader::new on their own: the headers are     *)
(* drawn from the values below and the build from every set of features.   *)
(***************************************************************************)
\* Content-Type values: with and without charset, other MIME types, other
\* spellings, a value that is not visible ASCII
ContentTypes ==
    {None,
     Some(<<"t", "e", "x", "t", "/", "p">>),
     Some(<<"t", "e", "x", "t", "/", "p", ";", "c", "h", "a", "r", "s",
          "e", "t", "=", "u", "t", "f", "8">>),
     Some(<<"t", "e", "x", "t", "/", "p", ";", " ", "c", "h", "a", "r",
          "s", "e", "t", "=", "l", "1">>),
     Some(<<"t", "e", "x", "t", "/", "p", ";", "c", "h", "a", "r", "s",
          "e", "t", "=", "x">>),
     Some(<<"a", "p", "p", "/", "j", ";", "c", "h", "a", "r", "s", "e",
          "t", "=", "l", "1">>),
     Some(<<"T", "e", "x", "t", "/", "p", ";", "c", "h", "a", "r", "s",
          "e", "t", "=", "l", "1">>),
     Some(<<" ", "t", "e", "x", "t", "/", "p", ";", "c", "h", "a", "r",
          "s", "e", "t", "=", "l", "1">>),
     Some(<<"t", "e", "x", "t", "/", "p", ";", "c", "h", "a", "r", "s",
          "e", "t", "=", "U", "T", "F", "8">>),
     Some(<<"t", "e", "x", "t", "/", "p", ";", "c", "h", "a", "r", "s",
          "e", "t", "=", "l", "1", ";", "c", "h", "a", "r", "s", "e", "t", "=",
          "u", "t", "f", "8">>),
     Some(<<>>),
     Some(<<"t", "e", "x", "t", "/", "p", ";", "C", "h", "a", "r", "s",
          "e", "t", "=", "l", "1">>),
     Some(<<"t", "e", "x", "t", ";", "c", "h", "a", "r", "s", "e", "t",
          "=", "l", "1">>),
     Some(<<"t", "e", "x", "t", "/", "p", ";", "c", "h", "a", "r", "s",
          "e", "t", "=", "L", "1">>),
     Some(<<"t", "e", "x", "t", "/", "p", NonAscii, ";", "c", "h", "a",
          "r", "s", "e", "t", "=", "l", "1">>)}

\* Content-Encoding values
ContentEncodings ==
    {None,
     Some(<<"g", "z", "i", "p">>),
     Some(<<"b", "r">>),
     Some(<<"G", "z", "i", "p">>),
     Some(<<" ", "g", "z", "i", "p">>),
     Some(<<"g", "z", "i", "p", ",", "b", "r">>),
     Some(<<"x">>),
     Some(<<>>),
     Some(<<"g", "z", "i", "p", NonAscii>>)}

\* A Body nobody reads
BodyUntouched ==
    /\ body = "alive"
    /\ reader = "none"
    /\ connection = "Some"
    /\ connState = "owned"
    /\ wire = <<>>
    /\ unit = [state |-> "Cleanup", must_close |-> FALSE, pending |-> NoEvent]
    /\ input = <<>>
    /\ limit = 0
    /\ left = 0
    /\ contentPending = 0
    /\ charsetPending = 0
    /\ pulled = 0
    /\ delivered = 0
    /\ startData = 0
    /\ bodyPulled = 0
    /\ reuseCalls = 0
    /\ closeCalls = 0
    /\ lastRead = NoRead

InitInfo ==
    /\ headers \in [content_encoding : ContentEncodings,
                    content_type : ContentTypes]
    /\ features \in SUBSET AllFeatures
    /\ info = None
    /\ decoder = None
    /\ BodyUntouched
    /\ StartOfBuilder

\* ResponseInfo::new(headers)
NewResponseInfo ==
    /\ info = None
    /\ info' = Some(ResponseInfoNew(headers))
    /\ UNCHANGED <<headers, decoder, features, bodyVars, cfgVars>>

\* BodyReader::new(reader, info)
NewBodyReader ==
    /\ IsSome(info)
    /\ decoder = None
    /\ decoder' = Some(BodyReaderNew(Unwrap(info), features))
    /\ UNCHANGED <<headers, info, features, bodyVars, cfgVars>>

NextInfo ==
    \/ NewResponseInfo
    \/ NewBodyReader

SpecInfo == InitInfo /\ [][NextInfo]_vars

(***************************************************************************)
(* Properties of the body pipeline.                                        *)
(***************************************************************************)
\* The Flow has reported Reset: only the Reset arm of do_read calls reuse or
\* close
ResetSeen == reuseCalls + closeCalls > 0

\* The read that led to this state called do_read
DoReadCalled == lastRead.kind # "none" /\ lastRead.buf >= 0

\* The Body, or the into_reader reader that owned its UnitHandler, is gone
HandlerDropped == body = "dropped" \/ (body = "moved" /\ reader = "none")

Contains(seq, x) == \E i \in 1..Len(seq) : seq[i] = x

\* C1: the bytes the LimitReader of a reader has returned never exceed the
\* limit N of that reader, and a read of the LimitReader that starts when
\* exactly N bytes have been returned fails with BodyExceedsLimit and
\* returns no byte.
C1_LimitNeverExceeded ==
    /\ pulled <= limit
    /\ (lastRead.limitRead /\ pulled - lastRead.raw = limit) =>
            (lastRead.kind = "BodyExceedsLimit" /\ lastRead.raw = 0)

\* C1 witness: a reader with a limit above 0 returned exactly its limit and
\* the next read failed with BodyExceedsLimit.
C1_Witness ==
    /\ limit > 0
    /\ pulled = limit
    /\ lastRead.limitRead
    /\ lastRead.kind = "BodyExceedsLimit"

\* C2: with a body of L bytes and a reader of limit N >= L (L = N and
\* L = N = 0 included), no read returns BodyExceedsLimit.
C2_NoLimitErrorWithinLimit ==
    startData <= limit => lastRead.kind # "BodyExceedsLimit"

\* C3: a read that polls Reset releases the connection exactly once (close
\* if must_close, reuse otherwise), returns 0 and leaves the Body without a
\* connection; a do_read without a connection returns 0 and takes no step:
\* no poll, no reuse, no close.
C3_ResetReleasesOnce ==
    /\ reuseCalls + closeCalls <= 1
    /\ lastRead.event = "Reset" =>
          /\ lastRead.kind = "ok" /\ lastRead.n = 0 /\ lastRead.raw = 0
          /\ lastRead.connectionBefore = "Some"
          /\ connection = "None"
          /\ IF unit.must_close
             THEN closeCalls = 1 /\ reuseCalls = 0 /\ connState = "closed"
                  /\ lastRead.steps = <<"poll_event", "close">>
             ELSE reuseCalls = 1 /\ closeCalls = 0 /\ connState = "pooled"
                  /\ lastRead.steps = <<"poll_event", "reuse">>
    /\ (DoReadCalled /\ lastRead.connectionBefore = "None") =>
          /\ lastRead.kind = "ok" /\ lastRead.n = 0 /\ lastRead.raw = 0
          /\ lastRead.steps = <<>>
          /\ connection = "None"

\* C3 witness: after a Reset that returned the connection to the pool, a
\* later do_read ran without a connection.
C3_Witness ==
    /\ DoReadCalled
    /\ lastRead.connectionBefore = "None"
    /\ reuseCalls = 1
    /\ connState = "pooled"

\* C4: a read in which the Flow consumed input and yielded
\* ResponseBody{amount = 0} while data bytes of the body are still to come
\* is not reported as Ok(0): do_read, given a non-empty buffer (so with
\* budget left), returns Ok(0) only once the Flow has reported Reset.
C4_ZeroOnlyAtCleanEnd ==
    (/\ lastRead.kind = "ok"
     /\ lastRead.buf > 0
     /\ lastRead.raw = 0
     /\ CountData(input \o wire) > 0)
        => ResetSeen

\* C5: after a read that failed in poll_event, await_input or handle_input
\* the Body holds no connection and the connection is closed.
C5_ErrorClosesConnection ==
    lastRead.kind = "err" => (connection = "None" /\ connState = "closed")

\* C6: the connection is in the pool only through a read that polled
\* Reset{must_close = false}; a Body or into_reader reader dropped before
\* such a read leaves its connection closed.
C6_ReuseOnlyOnCleanReset ==
    /\ connState = "pooled" =>
          (reuseCalls = 1 /\ unit.state = "Cleanup" /\ ~unit.must_close)
    /\ Contains(lastRead.steps, "reuse") =>
          (lastRead.event = "Reset" /\ ~unit.must_close)
    /\ (HandlerDropped /\ ~ResetSeen) => connState = "closed"

\* C6 witness: a Body dropped mid-stream, after some of its bytes were read
\* and before the Flow reported Reset, whose connection was closed.
C6_Witness ==
    /\ body = "dropped"
    /\ pulled > 0
    /\ unit.state = "RecvBody"
    /\ ~ResetSeen
    /\ connState = "closed"

\* C7: for every content encoding the budget of a reader is charged with the
\* bytes the Unit produced, not with the decoded bytes: left = limit minus
\* the bytes pulled from the Unit, which never exceed the limit.
C7_LimitCountsUnitBytes ==
    \A ce \in {"None", "Gzip", "Brotli", "Unknown"} :
        Unwrap(info).content_encoding = ce =>
            (pulled <= limit /\ left = limit - pulled)

\* C7 witness: a gzip body whose reader handed more decoded bytes to its
\* caller than its limit, with the bytes pulled from the Unit at the limit.
C7_Witness ==
    /\ IsSome(decoder)
    /\ Unwrap(decoder).content.variant = "Gzip"
    /\ Unwrap(decoder).content.decompress
    /\ delivered > limit
    /\ pulled = limit

\* The steps of a do_read that is given input, and a prefix of a sequence
ReadSteps ==
    <<"poll_event", "await_input", "handle_input", "consume_input",
      "poll_event">>

IsPrefix(s, t) == Len(s) <= Len(t) /\ SubSeq(t, 1, Len(s)) = s

C14_NoOverConsume ==
    lastRead.sliceLen >= 0 =>
        /\ lastRead.sliceLen =
              (IF lastRead.inputLen <= lastRead.buf
               THEN lastRead.inputLen ELSE lastRead.buf)
        /\ lastRead.sliceLen <= lastRead.inputLen
        /\ IF lastRead.consumed >= 0
           THEN /\ lastRead.consumed = lastRead.used
                /\ lastRead.consumed <= lastRead.sliceLen
                /\ Len(input) = lastRead.inputLen - lastRead.consumed
           ELSE Len(input) = lastRead.inputLen

\* C14 witness: the input held more bytes than the buffer, the Flow
\* consumed the slice, and the bytes after it are still in the input.
C14_Witness ==
    /\ lastRead.consumed >= 1
    /\ lastRead.inputLen > lastRead.sliceLen
    /\ lastRead.consumed = lastRead.sliceLen
    /\ Len(input) = lastRead.inputLen - lastRead.sliceLen

\* C17: a read that fails with BodyExceedsLimit starts with a budget of 0
\* and leaves it at 0, takes no step of do_read (no poll_event, no
\* await_input, no consume_input) and changes neither the Unit nor the
\* Connection nor its input, and calls neither close nor reuse; the read
\* that follows it on the same reader fails with BodyExceedsLimit again.
C17_LimitErrorHasNoEffect ==
    [][/\ lastRead'.kind = "BodyExceedsLimit" =>
            /\ left = 0
            /\ left' = 0
            /\ lastRead'.steps = <<>>
            /\ lastRead'.event1 = "none"
            /\ lastRead'.raw = 0
            /\ UNCHANGED <<unit, connection, connState, wire, input,
                           reuseCalls, closeCalls, pulled, delivered>>
       /\ (lastRead.kind = "BodyExceedsLimit" /\ lastRead'.kind # "none") =>
            lastRead'.kind = "BodyExceedsLimit"
      ]_vars

\* C17 witness: a reader that returned its whole limit of body bytes fails
\* with BodyExceedsLimit although the body has ended: the Flow is in
\* Cleanup, its Reset is not polled and the Body keeps the connection.
C17_Witness ==
    /\ lastRead.kind = "BodyExceedsLimit"
    /\ limit > 0
    /\ pulled = limit
    /\ unit.state = "Cleanup"
    /\ wire = <<>>
    /\ input = <<>>
    /\ connection = "Some"
    /\ connState = "owned"
    /\ reuseCalls + closeCalls = 0

\* C16: the budget belongs to the reader: as_reader(limit) starts a reader
\* with left = limit whatever earlier readers of the Body returned, and
\* leaves the position in the body (Unit, input, bytes not yet arrived) and
\* the connection as they are; within a reader, left plus the bytes the
\* reader returned is its limit after every read.
C16_BudgetPerReader ==
    /\ [](reader # "none" =>
            (left + pulled = limit /\ pulled <= bodyPulled))
    /\ [][(reader' = "shared" /\ lastRead'.kind = "none") =>
            /\ left' = limit'
            /\ pulled' = 0
            /\ UNCHANGED <<unit, wire, input, connection, connState,
                           bodyPulled, reuseCalls, closeCalls>>
         ]_vars

\* C16 witness: a later as_reader reader of a Body returned a byte although
\* the readers of that Body have together returned more than its limit.
C16_Witness ==
    /\ reader = "shared"
    /\ lastRead.kind = "ok"
    /\ lastRead.raw > 0
    /\ bodyPulled > pulled
    /\ bodyPulled > limit
    /\ left + pulled = limit

(***************************************************************************)
(* Properties of ResponseInfo::new and BodyReader::new.                    *)
(***************************************************************************)
\* C8: the charset decoder transcodes only if the MIME type starts with
\* "text/" and the charset label is recognised and is not UTF-8; in every
\* other case the bytes pass through unchanged.
C8_CharsetDecoderOnlyForText ==
    IsSome(decoder) =>
        LET i == Unwrap(info)
            d == Unwrap(decoder).charset
            text == /\ IsSome(i.mime_type)
                    /\ Len(Unwrap(i.mime_type)) >= 5
                    /\ SubSeq(Unwrap(i.mime_type), 1, 5)
                          = <<"t", "e", "x", "t", "/">>
            label == IF IsSome(i.charset)
                     THEN for_label(Unwrap(i.charset)) ELSE None
            other == IsSome(label) /\ Unwrap(label) # UTF_8
        IN  /\ d.transcode => (text /\ other)
            /\ ~(text /\ other) => ~d.transcode
            /\ ~text => d.variant = "PassThrough"

\* C8 witness: a text/* response with a recognised charset other than UTF-8
\* got a transcoding decoder.
C8_Witness ==
    /\ IsSome(decoder)
    /\ Unwrap(decoder).charset.transcode
    /\ Unwrap(info).charset = Some(<<"l", "1">>)

\* C9: the content decoder follows the Content-Encoding header alone: no
\* header or a non-string value gives None and PassThrough, "gzip" gives
\* Gzip, "br" gives Brotli, any other value gives Unknown and a logged
\* PassThrough that does not decompress.
C9_ContentDecoderFromHeader ==
    IsSome(decoder) =>
        LET h == headers.content_encoding
            e == Unwrap(info).content_encoding
            d == Unwrap(decoder).content
        IN  IF h = None \/ (\E k \in 1..Len(Unwrap(h)) : Unwrap(h)[k] = NonAscii)
            THEN e = "None" /\ d.variant = "PassThrough" /\ ~d.decompress
                 /\ ~d.logged
            ELSE IF Unwrap(h) = <<"g", "z", "i", "p">>
            THEN e = "Gzip" /\ d.variant = "Gzip"
            ELSE IF Unwrap(h) = <<"b", "r">>
            THEN e = "Brotli" /\ d.variant = "Brotli"
            ELSE e = "Unknown" /\ d.variant = "PassThrough" /\ ~d.decompress
                 /\ d.logged

\* C9 witness: a Content-Encoding that is a string other than "gzip" and
\* "br" got the logged PassThrough.
C9_Witness ==
    /\ IsSome(decoder)
    /\ headers.content_encoding = Some(<<"G", "z", "i", "p">>)
    /\ Unwrap(decoder).content.variant = "PassThrough"
    /\ Unwrap(decoder).content.logged

(***************************************************************************)
(* Config and ConfigBuilder (src/src/config.rs).  Durations are in         *)
(* seconds.                                                                *)
(***************************************************************************)
\* Timeouts with no default for await_100
TimeoutsDefaultNoAwait100 ==
    [global |-> None,
     per_call |-> None,
     resolve |-> None,
     connect |-> None,
     send_request |-> None,
     await_100 |-> None,
     send_body |-> None,
     recv_response |-> None,
     recv_body |-> None]

\* impl Default for Timeouts
TimeoutsDefault ==
    [global |-> None,
     per_call |-> None,
     resolve |-> None,
     connect |-> None,
     send_request |-> None,
     await_100 |-> Some(1),
     send_body |-> None,
     recv_response |-> None,
     recv_body |-> None]

\* impl Default for AutoHeaderValue
AutoHeaderValueDefault == <<"Default">>

\* impl Default for Config; the proxy comes from the environment, the
\* tls_config field exists with the feature _tls
ConfigDefault(envProxy, feats) ==
    [http_status_as_error |-> TRUE,
     https_only |-> FALSE,
     ip_family |-> "Any",
     tls_config |-> IF "_tls" \in feats THEN Some("default") ELSE None,
     proxy |-> envProxy,
     no_delay |-> TRUE,
     max_redirects |-> 10,
     redirect_auth_headers |-> "Never",
     user_agent |-> AutoHeaderValueDefault,
     accept |-> AutoHeaderValueDefault,
     accept_encoding |-> AutoHeaderValueDefault,
     timeouts |-> TimeoutsDefault,
     max_response_header_size |-> 64 * 1024,
     input_buffer_size |-> 128 * 1024,
     output_buffer_size |-> 128 * 1024,
     max_idle_connections |-> 10,
     max_idle_connections_per_host |-> 3,
     max_idle_age |-> 15,
     middleware |-> <<>>,
     force_send_body |-> FALSE]

\* The inputs of the setters
AutoHeaderValues ==
    {<<"None">>, <<"Default">>, <<"Provided", "">>, <<"Provided", "x">>}
OptDurations == {None, Some(5)}
Sizes == {0, 4096}

InitConfig ==
    /\ env \in {None, Some("proxy")}
    /\ features \in {{}, {"_tls"}}
    /\ config = None
    /\ setterCalls = 0
    /\ lastSetter = "none"
    /\ lastArg = "none"
    /\ built = None
    /\ headerValue = None
    /\ cloned = None
    /\ headers = [content_encoding |-> None, content_type |-> None]
    /\ info = None
    /\ decoder = None
    /\ BodyUntouched

\* Config::builder(): ConfigBuilder(AgentScope(Config::default()))
Builder ==
    /\ config = None
    /\ built = None
    /\ config' = Some(ConfigDefault(env, features))
    /\ UNCHANGED <<env, setterCalls, lastSetter, lastArg, agentVars,
                   infoVars, bodyVars>>

\* A setter: self.config().<field> = v; self
Setter(name, v, c) ==
    /\ IsSome(config)
    /\ setterCalls < MaxSetterCalls
    /\ config' = Some(c)
    /\ setterCalls' = setterCalls + 1
    /\ lastSetter' = name
    /\ lastArg' = v
    /\ UNCHANGED <<env, agentVars, infoVars, bodyVars>>

Cfg == Unwrap(config)

http_status_as_error(v) ==
    Setter("http_status_as_error", v, [Cfg EXCEPT !.http_status_as_error = v])
https_only(v) == Setter("https_only", v, [Cfg EXCEPT !.https_only = v])
ip_family(v) == Setter("ip_family", v, [Cfg EXCEPT !.ip_family = v])
tls_config(v) ==
    /\ "_tls" \in features
    /\ Setter("tls_config", v, [Cfg EXCEPT !.tls_config = Some(v)])
proxy(v) == Setter("proxy", v, [Cfg EXCEPT !.proxy = v])
no_delay(v) == Setter("no_delay", v, [Cfg EXCEPT !.no_delay = v])
max_redirects(v) == Setter("max_redirects", v, [Cfg EXCEPT !.max_redirects = v])
redirect_auth_headers(v) ==
    Setter("redirect_auth_headers", v, [Cfg EXCEPT !.redirect_auth_headers = v])
user_agent(v) == Setter("user_agent", v, [Cfg EXCEPT !.user_agent = v])
accept(v) == Setter("accept", v, [Cfg EXCEPT !.accept = v])
accept_encoding(v) ==
    Setter("accept_encoding", v, [Cfg EXCEPT !.accept_encoding = v])
max_response_header_size(v) ==
    Setter("max_response_header_size", v,
           [Cfg EXCEPT !.max_response_header_size = v])
input_buffer_size(v) ==
    Setter("input_buffer_size", v, [Cfg EXCEPT !.input_buffer_size = v])
output_buffer_size(v) ==
    Setter("output_buffer_size", v, [Cfg EXCEPT !.output_buffer_size = v])
max_idle_connections(v) ==
    Setter("max_idle_connections", v, [Cfg EXCEPT !.max_idle_connections = v])
max_idle_connections_per_host(v) ==
    Setter("max_idle_connections_per_host", v,
           [Cfg EXCEPT !.max_idle_connections_per_host = v])
max_idle_age(v) == Setter("max_idle_age", v, [Cfg EXCEPT !.max_idle_age = v])
\* A middleware() that replaces the chain
middlewareReplaces(v) ==
    Setter("middleware", v, [Cfg EXCEPT !.middleware = <<v>>])

\* self.config().middleware.add(v)
middleware(v) ==
    Setter("middleware", v, [Cfg EXCEPT !.middleware = Append(@, v)])
timeout_global(v) ==
    Setter("timeout_global", v, [Cfg EXCEPT !.timeouts.global = v])
timeout_per_call(v) ==
    Setter("timeout_per_call", v, [Cfg EXCEPT !.timeouts.per_call = v])
timeout_resolve(v) ==
    Setter("timeout_resolve", v, [Cfg EXCEPT !.timeouts.resolve = v])
timeout_connect(v) ==
    Setter("timeout_connect", v, [Cfg EXCEPT !.timeouts.connect = v])
timeout_send_request(v) ==
    Setter("timeout_send_request", v, [Cfg EXCEPT !.timeouts.send_request = v])
timeout_await_100(v) ==
    Setter("timeout_await_100", v, [Cfg EXCEPT !.timeouts.await_100 = v])
timeout_send_body(v) ==
    Setter("timeout_send_body", v, [Cfg EXCEPT !.timeouts.send_body = v])
timeout_recv_response(v) ==
    Setter("timeout_recv_response", v, [Cfg EXCEPT !.timeouts.recv_response = v])
timeout_recv_body(v) ==
    Setter("timeout_recv_body", v, [Cfg EXCEPT !.timeouts.recv_body = v])

NextConfig ==
    \/ Builder
    \/ \E v \in BOOLEAN : http_status_as_error(v)
    \/ \E v \in BOOLEAN : https_only(v)
    \/ \E v \in {"Any", "Ipv4Only", "Ipv6Only"} : ip_family(v)
    \/ \E v \in {"default", "custom"} : tls_config(v)
    \/ \E v \in {None, Some("proxy"), Some("other")} : proxy(v)
    \/ \E v \in BOOLEAN : no_delay(v)
    \/ \E v \in {0, 10} : max_redirects(v)
    \/ \E v \in {"Never", "SameHost"} : redirect_auth_headers(v)
    \/ \E v \in AutoHeaderValues : user_agent(v)
    \/ \E v \in AutoHeaderValues : accept(v)
    \/ \E v \in AutoHeaderValues : accept_encoding(v)
    \/ \E v \in Sizes : max_response_header_size(v)
    \/ \E v \in Sizes : input_buffer_size(v)
    \/ \E v \in Sizes : output_buffer_size(v)
    \/ \E v \in Sizes : max_idle_connections(v)
    \/ \E v \in Sizes : max_idle_connections_per_host(v)
    \/ \E v \in {0, 15} : max_idle_age(v)
    \/ \E v \in {"m1", "m2"} : middleware(v)
    \/ \E v \in OptDurations : timeout_global(v)
    \/ \E v \in OptDurations : timeout_per_call(v)
    \/ \E v \in OptDurations : timeout_resolve(v)
    \/ \E v \in OptDurations : timeout_connect(v)
    \/ \E v \in OptDurations : timeout_send_request(v)
    \/ \E v \in OptDurations : timeout_await_100(v)
    \/ \E v \in OptDurations : timeout_send_body(v)
    \/ \E v \in OptDurations : timeout_recv_response(v)
    \/ \E v \in OptDurations : timeout_recv_body(v)

SpecConfig == InitConfig /\ [][NextConfig]_vars

(***************************************************************************)
(* Properties of Config.                                                   *)
(***************************************************************************)
\* C10: the Config of Config::default(), which is the Config of
\* Config::builder() before any setter is called, has the documented
\* defaults: http_status_as_error true, https_only false, ip_family Any,
\* no_delay true, max_redirects 10, redirect_auth_headers Never, user_agent,
\* accept and accept_encoding Default, max_response_header_size 65536, both
\* buffer sizes 131072, max_idle_connections 10, 3 per host, max_idle_age
\* 15 s, no middleware, and every timeout None except await_100 = 1 s.
C10_DocumentedDefaults ==
    (IsSome(config) /\ setterCalls = 0) =>
        LET c == Unwrap(config) IN
        /\ c.http_status_as_error = TRUE
        /\ c.https_only = FALSE
        /\ c.ip_family = "Any"
        /\ c.no_delay = TRUE
        /\ c.max_redirects = 10
        /\ c.redirect_auth_headers = "Never"
        /\ c.user_agent = <<"Default">>
        /\ c.accept = <<"Default">>
        /\ c.accept_encoding = <<"Default">>
        /\ c.max_response_header_size = 65536
        /\ c.input_buffer_size = 131072
        /\ c.output_buffer_size = 131072
        /\ c.max_idle_connections = 10
        /\ c.max_idle_connections_per_host = 3
        /\ c.max_idle_age = 15
        /\ c.middleware = <<>>
        /\ \A t \in DOMAIN c.timeouts :
              c.timeouts[t] = IF t = "await_100" THEN <<1>> ELSE <<>>
        /\ DOMAIN c.timeouts =
              {"global", "per_call", "resolve", "connect", "send_request",
               "await_100", "send_body", "recv_response", "recv_body"}

\* C10 witness: a builder fresh from Config::builder(), with a proxy from
\* the environment.
C10_Witness ==
    /\ IsSome(config)
    /\ setterCalls = 0
    /\ Unwrap(config).proxy = Some("proxy")

\* The field of Timeouts each timeout_* setter names
TimeoutSetters ==
    [timeout_global |-> "global",
     timeout_per_call |-> "per_call",
     timeout_resolve |-> "resolve",
     timeout_connect |-> "connect",
     timeout_send_request |-> "send_request",
     timeout_await_100 |-> "await_100",
     timeout_send_body |-> "send_body",
     timeout_recv_response |-> "recv_response",
     timeout_recv_body |-> "recv_body"]

\* The setters that assign their argument to the Config field of their name
FieldSetters ==
    {"http_status_as_error", "https_only", "ip_family", "proxy", "no_delay",
     "max_redirects", "redirect_auth_headers", "user_agent", "accept",
     "accept_encoding", "max_response_header_size", "input_buffer_size",
     "output_buffer_size", "max_idle_connections",
     "max_idle_connections_per_host", "max_idle_age"}

\* C15: a call of a ConfigBuilder setter changes only the Config field it
\* names (a timeout_* setter only its field of timeouts) and gives it the
\* argument of the call, whatever the field held before, so the last call
\* wins; middleware() appends its argument to the chain instead; every
\* other field, force_send_body included, is left as it was.
C15_SettersFrame ==
    [][setterCalls' # setterCalls =>
        LET c == Unwrap(config)
            c2 == Unwrap(config')
            name == lastSetter'
            v == lastArg'
        IN  /\ setterCalls' = setterCalls + 1
            /\ name \in FieldSetters \cup DOMAIN TimeoutSetters
                            \cup {"middleware", "tls_config"}
            /\ DOMAIN c2 = DOMAIN c
            /\ DOMAIN c2.timeouts = DOMAIN c.timeouts
            /\ \A f \in DOMAIN c \ {"timeouts"} : f # name => c2[f] = c[f]
            /\ \A t \in DOMAIN c.timeouts :
                  (name \notin DOMAIN TimeoutSetters
                      \/ TimeoutSetters[name] # t)
                  => c2.timeouts[t] = c.timeouts[t]
            /\ name \in DOMAIN TimeoutSetters =>
                  c2.timeouts[TimeoutSetters[name]] = v
            /\ name \in FieldSetters => c2[name] = v
            /\ name = "tls_config" => c2.tls_config = <<v>>
            /\ name = "middleware" => c2.middleware = Append(c.middleware, v)
            /\ c2.force_send_body = c.force_send_body
      ]_vars

\* C15 witness: middleware() was called twice and the chain holds both
\* arguments in the order of the calls, with every other field at its
\* default.
C15_Witness ==
    /\ IsSome(config)
    /\ setterCalls = 2
    /\ lastSetter = "middleware"
    /\ lastArg = "m1"
    /\ Unwrap(config).middleware = <<"m2", "m1">>
    /\ [Unwrap(config) EXCEPT !.middleware = <<>>]
          = ConfigDefault(env, features)

(***************************************************************************)
(* The Config that build() returns: AutoHeaderValue::as_str and Clone.     *)
(***************************************************************************)
\* ConfigBuilder<AgentScope>::build: self.0 .0, the builder is consumed
Build ==
    /\ IsSome(config)
    /\ built = None
    /\ built' = config
    /\ config' = None
    /\ UNCHANGED <<env, setterCalls, lastSetter, lastArg, headerValue, cloned,
                   infoVars, bodyVars>>

\* An as_str without the test for the empty string
as_strKeepsEmpty(v, default) ==
    Some(IF v[1] = "None" THEN ""
         ELSE IF v[1] = "Default" THEN default
         ELSE v[2])

\* AutoHeaderValue::as_str
as_str(v, default) ==
    LET x == IF v[1] = "None" THEN ""
             ELSE IF v[1] = "Default" THEN default
             ELSE v[2]
    IN  IF x = "" THEN None ELSE Some(x)

\* The auto-inserted headers and the default strings as_str is given
AutoHeaders == {"user_agent", "accept", "accept_encoding"}
DefaultStrs == {"", "ureq/3", "*/*"}

\* config.<header>.as_str(default) on the built Config
AutoHeader(name, default) ==
    /\ IsSome(built)
    /\ headerValue' =
          Some([header |-> name,
                v |-> Unwrap(built)[name],
                default |-> default,
                value |-> as_str(Unwrap(built)[name], default)])
    /\ UNCHANGED <<env, config, setterCalls, lastSetter, lastArg, built,
                   cloned, infoVars, bodyVars>>

NextAutoHeader ==
    \/ Builder
    \/ \E v \in AutoHeaderValues : user_agent(v)
    \/ \E v \in AutoHeaderValues : accept(v)
    \/ \E v \in AutoHeaderValues : accept_encoding(v)
    \/ Build
    \/ \E name \in AutoHeaders, default \in DefaultStrs :
          AutoHeader(name, default)

SpecAutoHeader == InitConfig /\ [][NextAutoHeader]_vars

\* C12: v.as_str(d) is None when v is None, when v is Provided("") and when
\* v is Default and d is empty; otherwise it is Some(d) for Default and
\* Some(s) for Provided(s); it is never Some("").
C12_AutoHeaderSentIffNonEmpty ==
    IsSome(headerValue) =>
        LET h == Unwrap(headerValue)
            v == h.v
            d == h.default
        IN  /\ v = <<"None">> => h.value = <<>>
            /\ v = <<"Provided", "">> => h.value = <<>>
            /\ (v = <<"Default">> /\ d = "") => h.value = <<>>
            /\ (v = <<"Default">> /\ d # "") => h.value = <<d>>
            /\ (v[1] = "Provided" /\ v # <<"Provided", "">>) =>
                  h.value = <<v[2]>>
            /\ h.value # <<"">>
            /\ v = Unwrap(built)[h.header]

\* C12 witness: the user set a header to Provided("") and as_str, given a
\* default that is not empty, returned None.
C12_Witness ==
    /\ IsSome(headerValue)
    /\ Unwrap(headerValue).v = <<"Provided", "">>
    /\ Unwrap(headerValue).default = "ureq/3"
    /\ Unwrap(headerValue).value = <<>>

\* Arc::clone: one more reference to the same allocation
ArcCloneAllocs == 0

\* An AutoHeaderValue whose Provided holds a String of its own
AutoHeaderValueCloneOwnedString(v) ==
    IF v[1] = "Provided" /\ v[2] # "" THEN 1 ELSE 0

\* #[derive(Clone)] enum AutoHeaderValue: Provided(Arc<String>)
AutoHeaderValueCloneAllocs(v) ==
    IF v[1] = "Provided" THEN ArcCloneAllocs ELSE 0

\* Clone of Proxy, TlsConfig and MiddlewareChain: shared handles
ProxyCloneAllocs(p) == IF IsSome(p) THEN ArcCloneAllocs ELSE 0
TlsConfigCloneAllocs(t) == IF IsSome(t) THEN ArcCloneAllocs ELSE 0
MiddlewareChainCloneAllocs(chain) == ArcCloneAllocs

\* bool, u32, usize, Duration, IpFamily, RedirectAuthHeaders and Timeouts
\* are copied
CopyAllocs == 0

\* #[derive(Clone)] struct Config: the heap allocations of a clone, field by
\* field
ConfigCloneAllocs(c) ==
    CopyAllocs
    + TlsConfigCloneAllocs(c.tls_config)
    + ProxyCloneAllocs(c.proxy)
    + AutoHeaderValueCloneAllocs(c.user_agent)
    + AutoHeaderValueCloneAllocs(c.accept)
    + AutoHeaderValueCloneAllocs(c.accept_encoding)
    + MiddlewareChainCloneAllocs(c.middleware)

\* config.clone(), as in Config::new_agent
CloneConfig ==
    /\ IsSome(built)
    /\ cloned = None
    /\ cloned' = Some([config |-> Unwrap(built),
                       allocs |-> ConfigCloneAllocs(Unwrap(built))])
    /\ UNCHANGED <<env, config, setterCalls, lastSetter, lastArg, built,
                   headerValue, infoVars, bodyVars>>

NextClone ==
    \/ NextConfig
    \/ Build
    \/ CloneConfig

SpecClone == InitConfig /\ [][NextClone]_vars

=============================================================================
